---- MODULE Spec2Model ----
(***************************************************************************)
(* ddh: duplicate-file detection.  A model of src/lib.rs:                  *)
(*   deduplicate_dirs -> traverse_and_spawn (parallel, one channel)        *)
(*                    -> files_of_lengths (buckets by exact length)        *)
(*                    -> differentiate_and_consolidate -> dedupe.          *)
(* File lengths are multiples of BLOCK_SIZE bytes; a file's content is a   *)
(* sequence of block symbols, each standing for BLOCK_SIZE bytes (0 is the *)
(* all-zero block, the initial content of generate_hash's buffer).         *)
(***************************************************************************)
EXTENDS Integers, Sequences, FiniteSets, Bags, TLC

\* ------------------------------------------------------------------ bounds
\* environment events (an entry removed, a file made unreadable) per behaviour
MaxFaults == 1
\* read calls that return fewer bytes than requested and available, per run
MaxShortReads == 1

\* ------------------------------------------------------- program constants
BLOCK_SIZE == 4096
\* let mut hash_buffer = [0;BLOCK_SIZE * 4]: the bytes one read call asks for
HashBufferLen == BLOCK_SIZE * 4
\* the literal of `if file_length<=4096` in differentiate_and_consolidate
ShortCircuitLen == 4096
\* blocks held by the hash buffer
BufBlocks == HashBufferLen \div BLOCK_SIZE

\* ------------------------------------------------------------------ Option
None == <<>>
Some(h) == <<h>>
IsSome(o) == o # None
Unwrap(o) == o[1]

Min(a, b) == IF a < b THEN a ELSE b
Front(s) == SubSeq(s, 1, Len(s) - 1)
Last(s) == s[Len(s)]
Range(s) == {s[i] : i \in DOMAIN s}

\* -------------------------------------------------------------- filesystem
\* Canonical nodes of the tree.  Paths are sequences of names.
R == <<"r">>
Ra == <<"r", "a">>
Rb == <<"r", "b">>
Rd == <<"r", "d">>
Rdc == <<"r", "d", "c">>
Rs == <<"r", "s">>
Rx == <<"r", "x">>
Nodes == {R, Ra, Rb, Rd, Rdc, Rs}
Kind(q) == IF q \in {R, Rd} THEN "dir" ELSE IF q = Rs THEN "symlink" ELSE "file"

\* The inputs of a run: a tree and the roots.
\*   present  the entries that exist            link    the target of r/s
\*   data     the content of each file          locked  entries whose open fails
Tree(present, link, da, db, dc, locked, roots) ==
    [present |-> present, link |-> link,
     data |-> (Ra :> da) @@ (Rb :> db) @@ (Rdc :> dc),
     locked |-> locked, roots |-> roots]

\* The filter the caller asks for: a minimum size in bytes and the canonical
\* roots of the ignored subtrees.  deduplicate_dirs(search_dirs) has no
\* parameter that takes them.
Filter(min_size, ignore_dirs) == [min_size |-> min_size, ignore_dirs |-> ignore_dirs]

Catalogue ==
    { \* three 3-block files, a = b, c shares only their first block
      Tree({R, Ra, Rb, Rd, Rdc}, Rx, <<1, 1, 1>>, <<1, 1, 1>>, <<1, 2, 2>>,
           {}, <<R>>) @@ Filter(0, {}),
      \* one-block files, one of them unreadable, and a symlink to a file
      Tree({R, Ra, Rb, Rd, Rdc, Rs}, Ra, <<1>>, <<2>>, <<1>>,
           {Rb}, <<R>>) @@ Filter(2 * BLOCK_SIZE, {Rd}),
      \* two empty files and a symlink to a directory, overlapping roots
      Tree({R, Ra, Rb, Rd, Rdc, Rs}, Rd, <<>>, <<1, 2>>, <<>>,
           {}, <<Rd, R>>) @@ Filter(0, {}),
      \* two-block files (longer than 4096 bytes, shorter than the hash buffer)
      Tree({R, Ra, Rb, Rd}, Rx, <<1, 2>>, <<1, 2>>, <<>>,
           {}, <<Ra, Rb>>) @@ Filter(0, {}),
      \* five-block files that agree on the first hash buffer
      Tree({R, Ra, Rb, Rd, Rdc}, Rx, <<1, 1, 1, 1, 1>>, <<1, 1, 1, 1, 1>>,
           <<1, 1, 1, 1, 2>>, {}, <<R>>) @@ Filter(0, {}),
      \* roots: a dangling symlink, a missing path, a file, the same file again
      Tree({R, Ra, Rb, Rd, Rs}, Rx, <<1, 2>>, <<2, 1>>, <<>>,
           {}, <<Rs, Rx, Ra, Ra>>) @@ Filter(0, {}) }

VARIABLES
    cfg,               \* the tree and the inputs chosen for this behaviour
    present,           \* entries that exist now
    locked,            \* files that cannot be opened or read now
    faults,            \* environment events so far
    lockedEarly,       \* files made unreadable before the hash passes began
    pc,                \* "traverse", "receive", "differentiate", "done", "panicked"
    panicAt,           \* the stage whose expect/unwrap panicked, or "none"
    tasks,             \* bag of running traversal tasks
    chan,              \* packages sent and not yet received, in arrival order
    sent,              \* every package ever sent (bag)
    files_of_lengths,  \* length -> Vec<Fileinfo>
    errors,            \* Vec<(PathBuf, Error)>
    stage,             \* length -> position in differentiate_and_consolidate
    pending,           \* length -> indices the running par_iter_mut still visits
    passes,            \* <<path, mode>> -> generate_hash calls that opened path
    shortReads,        \* short reads so far in this run
    result,            \* complete_files
    run,               \* 1, or 2 once the pipeline is invoked again
    prevGroups,        \* the groups the first run returned
    call,              \* the arguments of a function called on its own, or <<>>
    ret                \* what that call returned, or <<>>

vars == <<cfg, present, locked, faults, lockedEarly, pc, panicAt, tasks, chan, sent,
          files_of_lengths, errors, stage, pending, passes, shortReads,
          result, run, prevGroups, call, ret>>

fsVars == <<present, locked, faults, lockedEarly>>
walkVars == <<tasks, chan, sent>>
diffVars == <<files_of_lengths, stage, pending, passes, shortReads>>

EmptyMap == [x \in {} |-> 0]

\* The canonical node a path resolves to, following symlinks in every
\* component, or Rx when it does not resolve (fs::metadata, File::open).
RECURSIVE Canon(_)
Canon(p) ==
    IF p = <<>> THEN <<>>
    ELSE LET parent == Canon(Front(p))
             q == Append(parent, Last(p))
         IN IF parent = Rx \/ q \notin present THEN Rx
            ELSE IF Kind(q) = "symlink"
                 THEN (IF cfg.link \in present THEN cfg.link ELSE Rx)
                 ELSE q

\* The node itself, the last component not followed (symlink_metadata,
\* DirEntry::metadata).
NoFollow(p) ==
    LET parent == Canon(Front(p))
        q == Append(parent, Last(p))
    IN IF parent = Rx \/ q \notin present THEN Rx ELSE q

FileLen(q) == Len(cfg.data[q]) * BLOCK_SIZE

\* names listed by read_dir of the directory node d
EntryNames(d) == {Last(q) : q \in {n \in present : Len(n) = Len(d) + 1 /\ Front(n) = d}}


\* --------------------------------------------------------------- Fileinfo
\* Fileinfo::new
Fileinfo(full, partial, length, path) ==
    [full_hash |-> full, partial_hash |-> partial, file_length |-> length,
     file_paths |-> <<path>>]

\* ChannelPackage::Success(Fileinfo) and ChannelPackage::Fail(PathBuf, Error)
Success(info) == [tag |-> "Success", path |-> info.file_paths[1],
                  info |-> info, error |-> "none"]
Fail(path, error) == [tag |-> "Fail", path |-> path,
                      info |-> Fileinfo(None, None, 0, path), error |-> error]

\* ----------------------------------------------------------------- tasks
TraverseTask(p) == [k |-> "traverse", path |-> p, toStat |-> {}, files |-> {}, dirs |-> {}]
RootFileTask(p) == [k |-> "file", path |-> p, toStat |-> {}, files |-> {}, dirs |-> {}]
DirTask(p, names) == [k |-> "dir", path |-> p, toStat |-> names, files |-> {}, dirs |-> {}]

RECURSIVE SeqToBag(_)
SeqToBag(s) == IF s = <<>> THEN EmptyBag ELSE SetToBag({s[1]}) (+) SeqToBag(Tail(s))

One(t) == SetToBag({t})

\* search_dirs.par_iter().for_each_with(sender, ...): one task per root
RootTasks(roots) == SeqToBag([i \in DOMAIN roots |-> TraverseTask(roots[i])])

Init ==
    /\ cfg \in Catalogue
    /\ present = cfg.present
    /\ locked = cfg.locked
    /\ faults = 0
    /\ lockedEarly = {}
    /\ pc = "traverse"
    /\ panicAt = "none"
    /\ tasks = RootTasks(cfg.roots)
    /\ chan = <<>>
    /\ sent = EmptyBag
    /\ files_of_lengths = EmptyMap
    /\ errors = <<>>
    /\ stage = EmptyMap
    /\ pending = EmptyMap
    /\ passes = EmptyMap
    /\ shortReads = 0
    /\ result = <<>>
    /\ run = 1
    /\ prevGroups = EmptyBag
    /\ call = <<>>
    /\ ret = <<>>

\* --------------------------------------------------------- the environment
\* An entry disappears (a file or a symlink is unlinked by another process).
Remove(q) ==
    /\ pc \in {"traverse", "receive", "differentiate"}
    /\ run = 1 /\ faults < MaxFaults
    /\ q \in present /\ Kind(q) # "dir"
    /\ present' = present \ {q}
    /\ faults' = faults + 1
    /\ UNCHANGED <<cfg, call, ret, locked, lockedEarly, pc, panicAt, walkVars, diffVars, errors, result,
                   run, prevGroups>>

\* A file or directory becomes unreadable (open, read and read_dir fail).
Lock(q) ==
    /\ pc \in {"traverse", "receive", "differentiate"}
    /\ run = 1 /\ faults < MaxFaults
    /\ q \in present /\ q \notin locked /\ Kind(q) # "symlink"
    /\ locked' = locked \cup {q}
    /\ lockedEarly' = IF pc = "differentiate" THEN lockedEarly ELSE lockedEarly \cup {q}
    /\ faults' = faults + 1
    /\ UNCHANGED <<cfg, call, ret, present, pc, panicAt, walkVars, diffVars, errors, result,
                   run, prevGroups>>

\* ------------------------------------------------------------- traversal
\* an expect()/unwrap() that fails: the pipeline unwinds and returns nothing
Panic(where) ==
    /\ pc' = "panicked"
    /\ panicAt' = where
    /\ UNCHANGED <<cfg, call, ret, fsVars, walkVars, diffVars, errors, result, run, prevGroups>>

\* sender.send(pkg) by task t, which goes on as the tasks in bag `next`
SendAnd(t, pkg, next) ==
    /\ chan' = Append(chan, pkg)
    /\ sent' = sent (+) One(pkg)
    /\ tasks' = (tasks (-) One(t)) (+) next
    /\ UNCHANGED <<cfg, call, ret, fsVars, pc, panicAt, diffVars, errors, result, run, prevGroups>>

Become(t, next) ==
    /\ tasks' = (tasks (-) One(t)) (+) next
    /\ UNCHANGED <<cfg, call, ret, fsVars, pc, panicAt, chan, sent, diffVars, errors, result,
                   run, prevGroups>>

\* traverse_and_spawn up to its first send or to read_dir's answer
traverse_and_spawn(t) ==
    /\ pc = "traverse" /\ BagIn(t, tasks) /\ t.k = "traverse"
    /\ LET meta == Canon(t.path)      \* fs::metadata follows symlinks
       IN IF meta = Rx
          THEN SendAnd(t, Fail(t.path, "NotFound"), EmptyBag)
          ELSE IF Kind(meta) = "symlink"
          THEN SendAnd(t, Fail(t.path, "Path is symlink"), EmptyBag)
          ELSE IF Kind(meta) = "file"
          THEN Become(t, One(RootFileTask(t.path)))
          ELSE IF meta \in locked
          THEN SendAnd(t, Fail(t.path, "PermissionDenied"), EmptyBag)
          ELSE Become(t, One(DirTask(t.path, EntryNames(meta))))

\* the is_file branch: current_path.metadata().expect(..).len(), then send
SendRootFile(t) ==
    /\ pc = "traverse" /\ BagIn(t, tasks) /\ t.k = "file"
    /\ LET meta == Canon(t.path)
       IN IF meta = Rx
          THEN Panic("traverse")
          ELSE SendAnd(t, Success(Fileinfo(None, None, FileLen(meta), t.path)), EmptyBag)

\* good_entries.par_iter().partition(..symlink_metadata().expect(..)..is_file())
Partition(t, n) ==
    /\ pc = "traverse" /\ BagIn(t, tasks) /\ t.k = "dir" /\ n \in t.toStat
    /\ LET meta == NoFollow(Append(t.path, n))
       IN IF meta = Rx
          THEN Panic("traverse")
          ELSE IF Kind(meta) = "file"
          THEN Become(t, One([t EXCEPT !.toStat = @ \ {n}, !.files = @ \cup {n}]))
          ELSE Become(t, One([t EXCEPT !.toStat = @ \ {n}, !.dirs = @ \cup {n}]))

\* files.par_iter().for_each_with: x.metadata().expect(..).len(), then send
SendFile(t, n) ==
    /\ pc = "traverse" /\ BagIn(t, tasks) /\ t.k = "dir"
    /\ t.toStat = {} /\ n \in t.files
    /\ LET meta == NoFollow(Append(t.path, n))
       IN IF meta = Rx
          THEN Panic("traverse")
          ELSE SendAnd(t, Success(Fileinfo(None, None, FileLen(meta), Append(t.path, n))),
                       One([t EXCEPT !.files = @ \ {n}]))

\* dirs.into_par_iter().for_each_with: one traverse_and_spawn per other entry
Recurse(t) ==
    /\ pc = "traverse" /\ BagIn(t, tasks) /\ t.k = "dir"
    /\ t.toStat = {} /\ t.files = {}
    /\ Become(t, SetToBag({TraverseTask(Append(t.path, n)) : n \in t.dirs}))

\* for_each_with returns: every task is over and every sender is dropped
Join ==
    /\ pc = "traverse" /\ tasks = EmptyBag
    /\ pc' = "receive"
    /\ UNCHANGED <<cfg, call, ret, fsVars, panicAt, walkVars, diffVars, errors, result, run, prevGroups>>

\* --------------------------------------------------------- consumer loop
\* an insert that replaces the bucket instead of pushing onto it
PushReplacing(map, key, v) ==
    IF key \in DOMAIN map THEN [map EXCEPT ![key] = <<v>>]
    ELSE map @@ (key :> <<v>>)

Push(map, key, v) ==
    IF key \in DOMAIN map THEN [map EXCEPT ![key] = Append(@, v)]
    ELSE map @@ (key :> <<v>>)

\* for pkg in receiver.iter(): one iteration
Receive ==
    /\ pc = "receive" /\ chan # <<>>
    /\ LET pkg == Head(chan)
       IN IF pkg.tag = "Success"
          THEN /\ files_of_lengths' = Push(files_of_lengths, pkg.info.file_length, pkg.info)
               /\ UNCHANGED errors
          ELSE /\ errors' = Append(errors, <<pkg.path, pkg.error>>)
               /\ UNCHANGED files_of_lengths
    /\ chan' = Tail(chan)
    /\ UNCHANGED <<cfg, call, ret, fsVars, pc, panicAt, tasks, sent, stage, pending, passes,
                   shortReads, result, run, prevGroups>>

\* the loop ends; files_of_lengths.into_par_iter() starts one call per length
EndReceive ==
    /\ pc = "receive" /\ chan = <<>>
    /\ pc' = "differentiate"
    /\ stage' = [l \in DOMAIN files_of_lengths |-> "todo"]
    /\ pending' = [l \in DOMAIN files_of_lengths |-> {}]
    /\ UNCHANGED <<cfg, call, ret, fsVars, panicAt, walkVars, files_of_lengths, errors, passes,
                   shortReads, result, run, prevGroups>>


\* ----------------------------------------------------------- generate_hash
\* The sizes (in blocks) of the successive read calls that return n > 0: a
\* read returns between one block and what the buffer and the file allow.
\* Partial mode returns after the first of them.
RECURSIVE FullPlans(_)
FullPlans(blocks) ==
    IF blocks = 0 THEN {<<>>}
    ELSE UNION {{<<n>> \o rest : rest \in FullPlans(blocks - n)} :
                n \in 1..Min(BufBlocks, blocks)}

ReadPlans(blocks, mode) ==
    IF mode = "Full" THEN FullPlans(blocks)
    ELSE IF blocks = 0 THEN {<<>>}
    ELSE {<<n>> : n \in 1..Min(BufBlocks, blocks)}

\* the reads of a plan that return less than the buffer and the file allow
RECURSIVE ShortCount(_, _)
ShortCount(plan, blocks) ==
    IF plan = <<>> THEN 0
    ELSE (IF plan[1] < Min(BufBlocks, blocks) THEN 1 ELSE 0)
         + ShortCount(Tail(plan), blocks - plan[1])

\* f.read(&mut hash_buffer) returning n blocks: the first n blocks of the
\* buffer are overwritten, the others keep what they held
ReadInto(buf, data, n) == SubSeq(data, 1, n) \o SubSeq(buf, n + 1, Len(buf))

\* hasher.write(&hash_buffer) after every read: the bytes fed to the hasher
RECURSIVE Written(_, _, _)
Written(buf, data, plan) ==
    IF plan = <<>> THEN <<>>
    ELSE LET b == ReadInto(buf, data, plan[1])
         IN b \o Written(b, SubSeq(data, plan[1] + 1, Len(data)), Tail(plan))

\* SipHasher128 over the bytes written, taken to be collision free
Sip128(bytes) == bytes

ZeroBuffer == [i \in 1..BufBlocks |-> 0]

\* The results generate_hash(mode) can return for the file at `path`, each
\* with the number of short reads it took.
generate_hash(path, mode) ==
    LET q == Canon(path)
    IN IF q = Rx \/ q \in locked \/ Kind(q) # "file"
       THEN {[hash |-> None, short |-> 0]}
       ELSE {[hash |-> Some(Sip128(Written(ZeroBuffer, cfg.data[q], plan))),
              short |-> ShortCount(plan, Len(cfg.data[q]))] :
             plan \in ReadPlans(Len(cfg.data[q]), mode)}

Bump(map, key) ==
    IF key \in DOMAIN map THEN [map EXCEPT ![key] = @ + 1] ELSE map @@ (key :> 1)

\* ------------------------------------------------------------------ dedupe
\* the key of the cache: (partial hash, full hash)
CacheKey(file) == <<file.partial_hash, file.full_hash>>

\* the index of the record that cache holds for the key of files[i]
Representative(files, i) ==
    CHOOSE j \in 1..i : /\ CacheKey(files[j]) = CacheKey(files[i])
                        /\ \A k \in 1..(j - 1) : CacheKey(files[k]) # CacheKey(files[i])

RECURSIVE DedupeFromPrepending(_, _)
\* a merge that puts the later record's paths in front
DedupeFromPrepending(files, i) ==
    IF i > Len(files) THEN files
    ELSE LET r == Representative(files, i)
         IN IF r = i THEN DedupeFromPrepending(files, i + 1)
            ELSE DedupeFromPrepending(
                     [files EXCEPT ![r].file_paths = files[i].file_paths \o @,
                                   ![i].file_paths = <<>>], i + 1)

\* the loop over files.iter_mut(), from index i on
RECURSIVE DedupeFrom(_, _)
DedupeFrom(files, i) ==
    IF i > Len(files) THEN files
    ELSE LET r == Representative(files, i)
         IN IF r = i THEN DedupeFrom(files, i + 1)
            ELSE DedupeFrom([files EXCEPT ![r].file_paths = @ \o files[i].file_paths,
                                          ![i].file_paths = <<>>], i + 1)

dedupe(files) == SelectSeq(DedupeFrom(files, 1), LAMBDA x : Len(x.file_paths) > 0)

\* --------------------------------------------- differentiate_and_consolidate
\* differentiate_and_consolidate without its `if file_length==0` return
DifferentiateHashingZeroLength(l) ==
    /\ pc = "differentiate" /\ l \in DOMAIN stage /\ stage[l] = "todo"
    /\ LET files == files_of_lengths[l]
       IN IF Len(files) <= 0
          THEN /\ pc' = "panicked" /\ panicAt' = "differentiate"
               /\ UNCHANGED <<stage, pending>>
          ELSE IF Len(files) = 1
          THEN /\ stage' = [stage EXCEPT ![l] = "done"]
               /\ UNCHANGED <<pc, panicAt, pending>>
          ELSE /\ stage' = [stage EXCEPT ![l] = "partial"]
               /\ pending' = [pending EXCEPT ![l] = DOMAIN files]
               /\ UNCHANGED <<pc, panicAt>>
    /\ UNCHANGED <<cfg, call, ret, fsVars, walkVars, files_of_lengths, errors, passes,
                   shortReads, result, run, prevGroups>>

\* entry of differentiate_and_consolidate(l, files_of_lengths[l])
differentiate_and_consolidate(l) ==
    /\ pc = "differentiate" /\ l \in DOMAIN stage /\ stage[l] = "todo"
    /\ LET files == files_of_lengths[l]
       IN IF l = 0
          THEN /\ stage' = [stage EXCEPT ![l] = "done"]
               /\ UNCHANGED <<pc, panicAt, pending>>
          ELSE IF Len(files) <= 0
          THEN /\ pc' = "panicked" /\ panicAt' = "differentiate"
               /\ UNCHANGED <<stage, pending>>
          ELSE IF Len(files) = 1
          THEN /\ stage' = [stage EXCEPT ![l] = "done"]
               /\ UNCHANGED <<pc, panicAt, pending>>
          ELSE /\ stage' = [stage EXCEPT ![l] = "partial"]
               /\ pending' = [pending EXCEPT ![l] = DOMAIN files]
               /\ UNCHANGED <<pc, panicAt>>
    /\ UNCHANGED <<cfg, call, ret, fsVars, walkVars, files_of_lengths, errors, passes,
                   shortReads, result, run, prevGroups>>

\* one closure of the first par_iter_mut: generate_hash(Partial), set_partial_hash
HashPartial(l, i) ==
    /\ pc = "differentiate" /\ l \in DOMAIN stage /\ stage[l] = "partial"
    /\ i \in pending[l]
    /\ \E o \in generate_hash(files_of_lengths[l][i].file_paths[1], "Partial") :
          /\ shortReads + o.short <= MaxShortReads
          /\ shortReads' = shortReads + o.short
          /\ files_of_lengths' = [files_of_lengths EXCEPT ![l][i].partial_hash = o.hash]
    /\ pending' = [pending EXCEPT ![l] = @ \ {i}]
    /\ passes' = Bump(passes, <<files_of_lengths[l][i].file_paths[1], "Partial">>)
    /\ UNCHANGED <<cfg, call, ret, fsVars, pc, panicAt, walkVars, errors, stage, result, run,
                   prevGroups>>

\* partial_hashes after the tally loop: hash -> occurrences - 1
partial_hashes(files) ==
    LET seen == {Unwrap(files[i].partial_hash) : i \in DOMAIN files}
    IN [h \in seen |->
          Cardinality({i \in DOMAIN files : Unwrap(files[i].partial_hash) = h}) - 1]

\* every tallied partial hash, whatever its count
TalliedHashes(files) == DOMAIN partial_hashes(files)

\* dedupe_hashes: the partial hashes whose tally is > 0
dedupe_hashes(files) == {h \in DOMAIN partial_hashes(files) : partial_hashes(files)[h] > 0}

\* after the first par_iter_mut: the short circuit, or the tally
AfterPartial(l) ==
    /\ pc = "differentiate" /\ l \in DOMAIN stage /\ stage[l] = "partial"
    /\ pending[l] = {}
    /\ LET files == files_of_lengths[l]
       IN IF l <= ShortCircuitLen
          THEN /\ files_of_lengths' =
                     [files_of_lengths EXCEPT ![l] =
                         dedupe([i \in DOMAIN files |->
                                   [files[i] EXCEPT !.full_hash = files[i].partial_hash]])]
               /\ stage' = [stage EXCEPT ![l] = "done"]
               /\ UNCHANGED <<pc, panicAt, pending>>
          ELSE IF \E i \in DOMAIN files : files[i].partial_hash = None
          THEN \* file.get_partial_hash().unwrap() on None
               /\ pc' = "panicked" /\ panicAt' = "differentiate"
               /\ UNCHANGED <<files_of_lengths, stage, pending>>
          ELSE /\ stage' = [stage EXCEPT ![l] = "full"]
               /\ pending' = [pending EXCEPT ![l] =
                     {i \in DOMAIN files :
                        Unwrap(files[i].partial_hash) \in dedupe_hashes(files)}]
               /\ UNCHANGED <<pc, panicAt, files_of_lengths>>
    /\ UNCHANGED <<cfg, call, ret, fsVars, walkVars, errors, passes, shortReads, result, run,
                   prevGroups>>

\* one closure of the second par_iter_mut: generate_hash(Full), set_full_hash
HashFull(l, i) ==
    /\ pc = "differentiate" /\ l \in DOMAIN stage /\ stage[l] = "full"
    /\ i \in pending[l]
    /\ \E o \in generate_hash(files_of_lengths[l][i].file_paths[1], "Full") :
          /\ shortReads + o.short <= MaxShortReads
          /\ shortReads' = shortReads + o.short
          /\ files_of_lengths' = [files_of_lengths EXCEPT ![l][i].full_hash = o.hash]
    /\ pending' = [pending EXCEPT ![l] = @ \ {i}]
    /\ passes' = Bump(passes, <<files_of_lengths[l][i].file_paths[1], "Full">>)
    /\ UNCHANGED <<cfg, call, ret, fsVars, pc, panicAt, walkVars, errors, stage, result, run,
                   prevGroups>>

\* after the second par_iter_mut: dedupe(files)
AfterFull(l) ==
    /\ pc = "differentiate" /\ l \in DOMAIN stage /\ stage[l] = "full"
    /\ pending[l] = {}
    /\ files_of_lengths' = [files_of_lengths EXCEPT ![l] = dedupe(@)]
    /\ stage' = [stage EXCEPT ![l] = "done"]
    /\ UNCHANGED <<cfg, call, ret, fsVars, pc, panicAt, walkVars, errors, pending, passes,
                   shortReads, result, run, prevGroups>>

\* ------------------------------------------------------------- the result
Orders(S) == {o \in [1..Cardinality(S) -> S] : Range(o) = S}

RECURSIVE Flatten(_, _)
Flatten(map, order) ==
    IF order = <<>> THEN <<>> ELSE map[order[1]] \o Flatten(map, Tail(order))

\* .flatten().collect(): the buckets in the map's (unspecified) order
Collect ==
    /\ pc = "differentiate"
    /\ \A l \in DOMAIN stage : stage[l] = "done"
    /\ \E order \in Orders(DOMAIN files_of_lengths) :
          result' = Flatten(files_of_lengths, order)
    /\ pc' = "done"
    /\ UNCHANGED <<cfg, call, ret, fsVars, panicAt, walkVars, diffVars, errors, run, prevGroups>>

\* the multiset of (length, set of paths) of a list of records
Groups(records) ==
    SeqToBag([i \in DOMAIN records |->
                <<records[i].file_length, Range(records[i].file_paths)>>])

\* deduplicate_dirs is called again with the same roots on the unchanged tree
Rerun ==
    /\ pc = "done" /\ run = 1 /\ faults = 0
    /\ run' = 2
    /\ prevGroups' = Groups(result)
    /\ pc' = "traverse"
    /\ tasks' = RootTasks(cfg.roots)
    /\ chan' = <<>>
    /\ sent' = EmptyBag
    /\ files_of_lengths' = EmptyMap
    /\ errors' = <<>>
    /\ stage' = EmptyMap
    /\ pending' = EmptyMap
    /\ passes' = EmptyMap
    /\ shortReads' = 0
    /\ result' = <<>>
    /\ UNCHANGED <<cfg, call, ret, fsVars, panicAt>>

Next ==
    \/ \E q \in Nodes : Remove(q)
    \/ \E q \in Nodes : Lock(q)
    \/ \E t \in BagToSet(tasks) : traverse_and_spawn(t)
    \/ \E t \in BagToSet(tasks) : SendRootFile(t)
    \/ \E t \in BagToSet(tasks) : \E n \in t.toStat : Partition(t, n)
    \/ \E t \in BagToSet(tasks) : \E n \in t.files : SendFile(t, n)
    \/ \E t \in BagToSet(tasks) : Recurse(t)
    \/ Join
    \/ Receive
    \/ EndReceive
    \/ \E l \in DOMAIN stage : differentiate_and_consolidate(l)
    \/ \E l \in DOMAIN stage : \E i \in pending[l] : HashPartial(l, i)
    \/ \E l \in DOMAIN stage : AfterPartial(l)
    \/ \E l \in DOMAIN stage : \E i \in pending[l] : HashFull(l, i)
    \/ \E l \in DOMAIN stage : AfterFull(l)
    \/ Collect
    \/ Rerun

Spec == Init /\ [][Next]_vars

\* a step of the pipeline itself: of a traversal task, of the consumer loop
\* or of a differentiate_and_consolidate call
Step ==
    \/ \E t \in BagToSet(tasks) : traverse_and_spawn(t)
    \/ \E t \in BagToSet(tasks) : SendRootFile(t)
    \/ \E t \in BagToSet(tasks) : \E n \in t.toStat : Partition(t, n)
    \/ \E t \in BagToSet(tasks) : \E n \in t.files : SendFile(t, n)
    \/ \E t \in BagToSet(tasks) : Recurse(t)
    \/ Join
    \/ Receive
    \/ EndReceive
    \/ \E l \in DOMAIN stage : differentiate_and_consolidate(l)
    \/ \E l \in DOMAIN stage : \E i \in pending[l] : HashPartial(l, i)
    \/ \E l \in DOMAIN stage : AfterPartial(l)
    \/ \E l \in DOMAIN stage : \E i \in pending[l] : HashFull(l, i)
    \/ \E l \in DOMAIN stage : AfterFull(l)
    \/ Collect

\* the thread pool and the calling thread keep running what can run
FairSpec == Spec /\ WF_vars(Step)

\* ------------------------------- differentiate_and_consolidate on its own
\* the records of a bucket handed to differentiate_and_consolidate, at most
MaxBucket == 3

BucketPaths == {Ra, Rb, Rdc}
\* its file_length argument: zero, the short-circuit threshold, or more
Lengths == {0, ShortCircuitLen, ShortCircuitLen + BLOCK_SIZE}

\* the lists of records Fileinfo::new makes for the length l
Buckets(l) ==
    UNION {[1..n -> {Fileinfo(None, None, l, p) : p \in BucketPaths}] : n \in 0..MaxBucket}

\* differentiate_and_consolidate(file_length, files) is called on some tree
InitBucket ==
    /\ cfg \in Catalogue
    /\ present = cfg.present
    /\ locked = cfg.locked
    /\ faults = 0
    /\ lockedEarly = {}
    /\ pc = "differentiate"
    /\ panicAt = "none"
    /\ tasks = EmptyBag
    /\ chan = <<>>
    /\ sent = EmptyBag
    /\ \E l \in Lengths : \E files \in Buckets(l) :
          /\ call = [file_length |-> l, files |-> files]
          /\ files_of_lengths = (l :> files)
          /\ stage = (l :> "todo")
          /\ pending = (l :> {})
    /\ errors = <<>>
    /\ passes = EmptyMap
    /\ shortReads = 0
    /\ result = <<>>
    /\ run = 1
    /\ prevGroups = EmptyBag
    /\ ret = <<>>

NextBucket ==
    \/ \E l \in DOMAIN stage : differentiate_and_consolidate(l)
    \/ \E l \in DOMAIN stage : \E i \in pending[l] : HashPartial(l, i)
    \/ \E l \in DOMAIN stage : AfterPartial(l)
    \/ \E l \in DOMAIN stage : \E i \in pending[l] : HashFull(l, i)
    \/ \E l \in DOMAIN stage : AfterFull(l)

SpecBucket == InitBucket /\ [][NextBucket]_vars

\* ------------------------------------------------ functions on their own
\* no tree: the function called reads no file
NoTree == Tree({}, Rx, <<>>, <<>>, <<>>, {}, <<>>) @@ Filter(0, {})

pipelineVars == <<present, locked, faults, lockedEarly, panicAt, tasks, chan, sent,
                  files_of_lengths, errors, stage, pending, passes, shortReads,
                  result, run, prevGroups>>

\* the pipeline is not running
Idle ==
    /\ present = cfg.present
    /\ locked = cfg.locked
    /\ faults = 0
    /\ lockedEarly = {}
    /\ panicAt = "none"
    /\ tasks = EmptyBag
    /\ chan = <<>>
    /\ sent = EmptyBag
    /\ files_of_lengths = EmptyMap
    /\ errors = <<>>
    /\ stage = EmptyMap
    /\ pending = EmptyMap
    /\ passes = EmptyMap
    /\ shortReads = 0
    /\ result = <<>>
    /\ run = 1
    /\ prevGroups = EmptyBag

\* dedupe(files): the records of the list handed to dedupe, at most
MaxList == 3
\* the hash values of those records, 1..MaxKeyHash
MaxKeyHash == 1

Options(n) == {None} \cup {Some(h) : h \in 1..n}

\* the records differentiate_and_consolidate can hand to dedupe: made by
\* Fileinfo::new, hashes set or not by set_partial_hash and set_full_hash
HashedRecords ==
    {Fileinfo(full, partial, BLOCK_SIZE, p) :
        full \in Options(MaxKeyHash), partial \in Options(MaxKeyHash), p \in {Ra, Rb}}

InitDedupe ==
    /\ cfg = NoTree
    /\ Idle
    /\ pc = "dedupe"
    /\ call \in [files : UNION {[1..n -> HashedRecords] : n \in 0..MaxList}]
    /\ ret = <<>>

CallDedupe ==
    /\ pc = "dedupe"
    /\ ret' = dedupe(call.files)
    /\ pc' = "returned"
    /\ UNCHANGED <<cfg, call, pipelineVars>>

SpecDedupe == InitDedupe /\ [][CallDedupe]_vars

\* the hash values of the records compared, 1..MaxHash
MaxHash == 2

\* u64::cmp, u128::cmp
Ordering(x, y) == IF x < y THEN "Less" ELSE IF x > y THEN "Greater" ELSE "Equal"

\* impl PartialEq for Fileinfo
eq(self, other) ==
    /\ self.file_length = other.file_length
    /\ self.partial_hash = other.partial_hash
    /\ self.full_hash = other.full_hash

\* impl PartialOrd for Fileinfo
partial_cmp(self, other) ==
    IF IsSome(self.full_hash) /\ IsSome(other.full_hash)
    THEN Some(Ordering(Unwrap(self.full_hash), Unwrap(other.full_hash)))
    ELSE IF IsSome(self.partial_hash) /\ IsSome(other.partial_hash)
    THEN Some(Ordering(Unwrap(self.partial_hash), Unwrap(other.partial_hash)))
    ELSE Some(Ordering(self.file_length, other.file_length))

\* impl Ord for Fileinfo
cmp(self, other) ==
    IF IsSome(self.full_hash) /\ IsSome(other.full_hash)
    THEN Ordering(Unwrap(self.full_hash), Unwrap(other.full_hash))
    ELSE IF IsSome(self.partial_hash) /\ IsSome(other.partial_hash)
    THEN Ordering(Unwrap(self.partial_hash), Unwrap(other.partial_hash))
    ELSE Ordering(self.file_length, other.file_length)

\* the records compared: any length, each hash absent or present
ComparedRecords ==
    {Fileinfo(full, partial, l, Ra) :
        full \in Options(MaxHash), partial \in Options(MaxHash), l \in Lengths}

\* three records are compared with each other
InitCmp ==
    /\ cfg = NoTree
    /\ Idle
    /\ pc = "cmp"
    /\ call \in [1..3 -> ComparedRecords]
    /\ ret = <<>>

CallCmp ==
    /\ pc = "cmp"
    /\ ret' = [cmp |-> [x \in 1..3 |-> [y \in 1..3 |-> cmp(call[x], call[y])]],
               partial_cmp |-> [x \in 1..3 |-> [y \in 1..3 |-> partial_cmp(call[x], call[y])]],
               eq |-> [x \in 1..3 |-> [y \in 1..3 |-> eq(call[x], call[y])]]]
    /\ pc' = "returned"
    /\ UNCHANGED <<cfg, call, pipelineVars>>

SpecCmp == InitCmp /\ [][CallCmp]_vars

\* generate_hash(mode) is called on the records of two files of some tree
InitHash ==
    /\ cfg \in Catalogue
    /\ Idle
    /\ pc = "generate_hash"
    /\ call \in [path : BucketPaths, other : BucketPaths, mode : {"Partial", "Full"}]
    /\ ret = <<>>

CallGenerateHash ==
    /\ pc = "generate_hash"
    /\ \E o \in generate_hash(call.path, call.mode) :
       \E u \in generate_hash(call.other, call.mode) :
          /\ o.short + u.short <= MaxShortReads
          /\ ret' = [path |-> o.hash, other |-> u.hash]
    /\ pc' = "returned"
    /\ UNCHANGED <<cfg, call, pipelineVars>>

SpecHash == InitHash /\ [][CallGenerateHash]_vars


\* ================================================================== claims
\* what the claims observe
SuccessPackages == {pkg \in BagToSet(sent) : pkg.tag = "Success"}
FailPackages == {pkg \in BagToSet(sent) : pkg.tag = "Fail"}
SuccessPaths == {pkg.path : pkg \in SuccessPackages}

\* all paths of a list of records, with repetitions
RECURSIVE AllPaths(_)
AllPaths(records) ==
    IF records = <<>> THEN <<>> ELSE records[1].file_paths \o AllPaths(Tail(records))

\* the indices of the records of `records` that list path p
RecordsOf(records, p) == {i \in DOMAIN records : p \in Range(records[i].file_paths)}

\* the length traversal recorded for the emitted path p
EmittedLen(p) == (CHOOSE pkg \in SuccessPackages : pkg.path = p).info.file_length

\* the prefixes of a path, the path included
Prefixes(p) == {SubSeq(p, 1, k) : k \in 1..Len(p)}

\* p names a symlink or passes through one
ViaSymlink(p) == \E x \in Prefixes(p) : NoFollow(x) # Rx /\ Kind(NoFollow(x)) = "symlink"

\* p lies in (or is) an ignored subtree
UnderIgnored(p) == \E x \in Prefixes(p) : Canon(x) \in cfg.ignore_dirs

\* the paths the traversal of p has to give an outcome for
RECURSIVE Reachable(_)
Reachable(p) ==
    LET q == Canon(p)
    IN IF q # Rx /\ Kind(q) = "dir" /\ q \notin locked
       THEN UNION {Reachable(Append(p, n)) : n \in EntryNames(q)}
       ELSE {p}


\* C1 (partition correctness): once deduplicate_dirs has returned, the paths
\* of the returned records are exactly the paths emitted as Success, and no
\* path is listed twice, in one record or in two.
C1_PartitionCorrectness ==
    pc = "done" =>
        /\ Range(AllPaths(result)) = SuccessPaths
        /\ Len(AllPaths(result)) = Cardinality(Range(AllPaths(result)))

\* the content of the file the emitted path p names
ContentOf(p) == cfg.data[Canon(p)]

\* the three files of Scenario A: a and b identical, c sharing their first 4096 bytes
ScenarioA ==
    /\ cfg.roots = <<R>> /\ cfg.present = {R, Ra, Rb, Rd, Rdc}
    /\ cfg.data[Ra] = cfg.data[Rb] /\ Len(cfg.data[Ra]) = Len(cfg.data[Rdc])
    /\ FileLen(Ra) > ShortCircuitLen /\ FileLen(Ra) <= HashBufferLen
    /\ cfg.data[Rdc] # cfg.data[Ra] /\ cfg.data[Rdc][1] = cfg.data[Ra][1]

\* C2 (duplicate grouping): with every file readable, two files of one
\* length > 0 are in the same returned record iff their content is the
\* same; in Scenario A the record of c is a singleton with the partial hash
\* of the record of a and b and another full hash.
C2_DuplicateGrouping ==
    (pc = "done" /\ faults = 0 /\ locked = {}) =>
        /\ \A p \in SuccessPaths : \A q \in SuccessPaths :
              (p # q /\ EmittedLen(p) = EmittedLen(q) /\ EmittedLen(p) > 0) =>
                  ((RecordsOf(result, p) = RecordsOf(result, q))
                      <=> (ContentOf(p) = ContentOf(q)))
        /\ ScenarioA =>
              \E i \in DOMAIN result : \E j \in DOMAIN result :
                  /\ Range(result[i].file_paths) = {Ra, Rb}
                  /\ Len(result[i].file_paths) = 2
                  /\ result[j].file_paths = <<Rdc>>
                  /\ result[j].partial_hash = result[i].partial_hash
                  /\ IsSome(result[j].partial_hash)
                  /\ result[j].full_hash # result[i].full_hash

\* C3 (idempotence under reordering): a second run on the unchanged tree
\* returns the same multiset of (length, set of paths) as the first.
C3_Idempotence ==
    (pc = "done" /\ run = 2) => Groups(result) = prevGroups

\* C4 (absent-hash quarantine): a consolidated record with an absent partial
\* or full hash was merged with no other record: it has the one path it was
\* created with.
C4_AbsentHashQuarantine ==
    \A l \in DOMAIN stage :
        stage[l] = "done" =>
            \A i \in DOMAIN files_of_lengths[l] :
                (files_of_lengths[l][i].partial_hash = None
                    \/ files_of_lengths[l][i].full_hash = None)
                => Len(files_of_lengths[l][i].file_paths) = 1

\* C5 (hashing failures do not crash): differentiate_and_consolidate never
\* panics, and a member whose file cannot be opened has an absent hash.
C5_HashFailureNoPanic ==
    /\ panicAt # "differentiate"
    /\ \A l \in DOMAIN stage :
          (stage[l] = "partial" /\ faults = 0) =>
              \A i \in DOMAIN files_of_lengths[l] :
                  (i \notin pending[l]
                      /\ Canon(files_of_lengths[l][i].file_paths[1]) \in locked)
                  => files_of_lengths[l][i].partial_hash = None

\* C6 (Scenario C): a file emitted as Success and made unreadable before the
\* hash passes is returned in a record of exactly one path with no full hash
\* and is in no error entry; the errors are exactly the Fail packages sent.
C6_UnreadableFileIsolated ==
    pc = "done" =>
        /\ \A p \in SuccessPaths :
              (Canon(p) \in lockedEarly) =>
                  /\ \A i \in RecordsOf(result, p) :
                        /\ Len(result[i].file_paths) = 1
                        /\ result[i].full_hash = None
                  /\ RecordsOf(result, p) # {}
                  /\ \A k \in DOMAIN errors : errors[k][1] # p
        /\ SeqToBag(errors) =
              BagOfAll(LAMBDA pkg : <<pkg.path, pkg.error>>,
                       [pkg \in FailPackages |-> sent[pkg]])

\* the symlinks given as roots or listed in a root directory
SymlinkPaths ==
    {r \in Range(cfg.roots) : ViaSymlink(r)}
    \cup UNION {{Append(r, n) : n \in {m \in EntryNames(Canon(r)) :
                                          ViaSymlink(Append(r, m))}} :
                r \in {x \in Range(cfg.roots) : Canon(x) # Rx /\ Kind(Canon(x)) = "dir"}}

\* C7 (symlinks are no candidates): no Success package names a symlink or a
\* path through one, and once traversal is over every symlink met has its
\* Fail package.
C7_SymlinksSkipped ==
    /\ \A pkg \in SuccessPackages : ~ViaSymlink(pkg.path)
    /\ (pc = "receive" /\ faults = 0) =>
          \A p \in SymlinkPaths : \E pkg \in FailPackages : pkg.path = p

\* C8 (one failing path does not abort the others): no traversal task
\* panics, and once traversal is over every reachable entry that is no
\* directory has a package.
C8_TraversalErrorsLocal ==
    /\ panicAt # "traverse"
    /\ pc = "receive" =>
          \A r \in Range(cfg.roots) : \A p \in Reachable(r) :
              \E pkg \in BagToSet(sent) : pkg.path = p

\* C9 (filter correctness): no returned record and no error names a path
\* under an ignored subtree, and no returned record is shorter than the
\* minimum size.
C9_FilterCorrectness ==
    pc = "done" =>
        /\ \A i \in DOMAIN result :
              /\ result[i].file_length >= cfg.min_size
              /\ \A p \in Range(result[i].file_paths) : ~UnderIgnored(p)
        /\ \A k \in DOMAIN errors : ~UnderIgnored(errors[k][1])

\* the number of generate_hash passes that opened path p
PassCount(p) ==
    (IF <<p, "Partial">> \in DOMAIN passes THEN passes[<<p, "Partial">>] ELSE 0)
    + (IF <<p, "Full">> \in DOMAIN passes THEN passes[<<p, "Full">>] ELSE 0)

\* C10 (short circuit): a file no longer than the block generate_hash reads
\* in Partial mode is opened by at most one pass, and never by a Full pass.
C10_ShortCircuit ==
    \A key \in DOMAIN passes :
        EmittedLen(key[1]) <= HashBufferLen =>
            /\ key[2] # "Full"
            /\ PassCount(key[1]) <= 1

\* the call of differentiate_and_consolidate has returned or panicked
Entered(l) == l \in DOMAIN stage /\ (stage[l] # "todo" \/ pc = "panicked")

\* C11 (zero-length passthrough): called with length 0 and n >= 1 records,
\* differentiate_and_consolidate returns the n records it was given, each
\* with its one path and no hash; it opens no file and merges nothing.
C11_ZeroLengthPassthrough ==
    (Entered(0) /\ call.files # <<>>) =>
        /\ stage[0] = "done" /\ pc # "panicked"
        /\ files_of_lengths[0] = call.files
        /\ \A i \in DOMAIN files_of_lengths[0] :
              /\ Len(files_of_lengths[0][i].file_paths) = 1
              /\ files_of_lengths[0][i].partial_hash = None
              /\ files_of_lengths[0][i].full_hash = None
        /\ passes = EmptyMap

\* two readable empty files, and a path given twice, were passed through
C11_Witness ==
    /\ Entered(0) /\ stage[0] = "done"
    /\ \E i \in DOMAIN call.files : \E j \in DOMAIN call.files : \E k \in DOMAIN call.files :
          /\ i < j /\ j < k
          /\ call.files[i].file_paths # call.files[j].file_paths
          /\ call.files[j].file_paths = call.files[k].file_paths
          /\ \A x \in {i, j} :
                /\ Canon(call.files[x].file_paths[1]) \in {Ra, Rb, Rdc} \ locked
                /\ cfg.data[Canon(call.files[x].file_paths[1])] = <<>>

\* C12 (an empty bucket is fatal): called with an empty list of records,
\* differentiate_and_consolidate panics whatever file_length is, 0 included,
\* and returns no value.
C12_EmptyBucketFatal ==
    \A l \in DOMAIN stage :
        (Entered(l) /\ call.files = <<>>) =>
            /\ pc = "panicked" /\ panicAt = "differentiate"
            /\ stage[l] # "done"

\* the packages the consumer loop has taken: a Success for every record of
\* a bucket and a Fail for every entry of the error list
Stored ==
    SeqToBag([i \in DOMAIN Flatten(files_of_lengths,
                                   CHOOSE o \in Orders(DOMAIN files_of_lengths) : TRUE) |->
                Success(Flatten(files_of_lengths,
                                CHOOSE o \in Orders(DOMAIN files_of_lengths) : TRUE)[i])])
    (+) SeqToBag([k \in DOMAIN errors |-> Fail(errors[k][1], errors[k][2])])

\* no differentiate_and_consolidate call has started to work on its bucket
Untouched == pc = "differentiate" /\ \A l \in DOMAIN stage : stage[l] = "todo"

\* C13 (lossless fan-in): until the buckets are worked on, the packages sent
\* are exactly those still in the channel plus those stored, each stored
\* once; every record is in the bucket of its own length; and buckets are
\* handed to differentiate_and_consolidate only when every task is over and
\* the channel is drained.
C13_LosslessFanIn ==
    /\ (pc \in {"traverse", "receive"} \/ Untouched) => sent = SeqToBag(chan) (+) Stored
    /\ \A l \in DOMAIN files_of_lengths : \A i \in DOMAIN files_of_lengths[l] :
          files_of_lengths[l][i].file_length = l
    /\ DOMAIN stage # {} => (chan = <<>> /\ tasks = EmptyBag)

\* tasks of two roots sent four or more packages, a Fail among them; all are
\* stored, in two buckets or more, one holding several records
C13_Witness ==
    /\ Untouched
    /\ Len(cfg.roots) >= 2
    /\ BagCardinality(sent) >= 4
    /\ errors # <<>>
    /\ Cardinality(DOMAIN files_of_lengths) >= 2
    /\ \E l \in DOMAIN files_of_lengths : Len(files_of_lengths[l]) >= 2

\* C14 (run to completion): the pipeline eventually returns; until it has,
\* one of its tasks, its consumer loop or one of its differentiate calls
\* can take a step.
C14_RunToCompletion == pc = "done" \/ ENABLED Step

\* the partial hash of files[i] is that of another record of the list
Recurs(files, i) ==
    \E j \in DOMAIN files \ {i} : files[j].partial_hash = files[i].partial_hash

\* C15 (full-hash flagging): in a bucket of two or more records longer than
\* the short-circuit threshold whose partial hashes all succeeded, the
\* records handed to the Full pass are exactly those whose partial hash
\* recurs in the bucket, a Full pass opens only a file of such a record, and
\* a record with a unique partial hash is returned as it is, full hash
\* absent and with its one path.
C15_FullHashFlagging ==
    [][\A l \in DOMAIN stage \cap DOMAIN stage' :
          (l > ShortCircuitLen /\ Len(files_of_lengths[l]) >= 2) =>
              /\ (stage[l] = "partial" /\ stage'[l] = "full") =>
                    pending'[l] = {i \in DOMAIN files_of_lengths[l] :
                                      Recurs(files_of_lengths[l], i)}
              /\ (stage[l] = "full" /\ passes' # passes) =>
                    \E i \in pending[l] :
                        /\ Recurs(files_of_lengths[l], i)
                        /\ pending'[l] = pending[l] \ {i}
                        /\ passes' = Bump(passes, <<files_of_lengths[l][i].file_paths[1], "Full">>)
              /\ (stage[l] = "full" /\ stage'[l] = "done") =>
                    \A i \in DOMAIN files_of_lengths[l] :
                        ~Recurs(files_of_lengths[l], i) =>
                            /\ files_of_lengths[l][i].full_hash = None
                            /\ Len(files_of_lengths[l][i].file_paths) = 1
                            /\ \E k \in DOMAIN files_of_lengths'[l] :
                                  files_of_lengths'[l][k] = files_of_lengths[l][i]
      ]_vars

\* a bucket was returned with two records merged after their Full pass and a
\* record of unique partial hash left alone
C15_Witness ==
    \E l \in DOMAIN stage :
        /\ l > ShortCircuitLen /\ stage[l] = "done" /\ pc # "panicked"
        /\ \E i \in DOMAIN files_of_lengths[l] : \E j \in DOMAIN files_of_lengths[l] :
              /\ Len(files_of_lengths[l][i].file_paths) = 2
              /\ IsSome(files_of_lengths[l][i].full_hash)
              /\ IsSome(files_of_lengths[l][j].partial_hash)
              /\ files_of_lengths[l][j].full_hash = None
              /\ Len(files_of_lengths[l][j].file_paths) = 1

\* the index of the first record of `files` with the key `key`
FirstWithKey(files, key) ==
    CHOOSE i \in DOMAIN files :
        /\ <<files[i].partial_hash, files[i].full_hash>> = key
        /\ \A j \in 1..(i - 1) : <<files[j].partial_hash, files[j].full_hash>> # key

\* the paths of the records of `files` with the key `key`, in list order
PathsWithKey(files, key) ==
    AllPaths(SelectSeq(files, LAMBDA x : <<x.partial_hash, x.full_hash>> = key))

\* C16 (consolidation result): dedupe returns one record per distinct
\* (partial hash, full hash) key of its input: the first record with the key,
\* its paths followed by those of the later records with the key in input
\* order.  Every returned record has a path, the survivors keep their input
\* order, and the first path of a survivor is the one it had.
C16_ConsolidationResult ==
    pc = "returned" =>
        /\ Len(ret) = Cardinality({<<call.files[i].partial_hash, call.files[i].full_hash>> :
                                      i \in DOMAIN call.files})
        /\ \A k \in DOMAIN ret :
              LET key == <<ret[k].partial_hash, ret[k].full_hash>>
              IN /\ \E i \in DOMAIN call.files :
                        <<call.files[i].partial_hash, call.files[i].full_hash>> = key
                 /\ LET first == call.files[FirstWithKey(call.files, key)]
                    IN /\ ret[k].file_length = first.file_length
                       /\ ret[k].file_paths = PathsWithKey(call.files, key)
                       /\ Len(ret[k].file_paths) >= 1
                       /\ ret[k].file_paths[1] = first.file_paths[1]
        /\ \A k \in DOMAIN ret : \A m \in DOMAIN ret :
              k < m =>
                  FirstWithKey(call.files, <<ret[k].partial_hash, ret[k].full_hash>>)
                      < FirstWithKey(call.files, <<ret[m].partial_hash, ret[m].full_hash>>)

\* of three records the first and the third had one key and other paths,
\* the second another key, and two records were returned
C16_Witness ==
    /\ pc = "returned"
    /\ Len(call.files) = 3 /\ Len(ret) = 2
    /\ call.files[1].file_paths # call.files[3].file_paths
    /\ call.files[1].partial_hash = call.files[3].partial_hash
    /\ call.files[1].full_hash = call.files[3].full_hash
    /\ Len(ret[1].file_paths) = 2

\* Ordering::reverse
Reverse(o) == IF o = "Less" THEN "Greater" ELSE IF o = "Greater" THEN "Less" ELSE "Equal"

\* C17 (the staged comparison is a total order): among any three records,
\* cmp is antisymmetric and transitive (no a < b < c < a), partial_cmp is
\* Some(cmp), and cmp is Equal exactly when eq is true.
C17_StagedTotalOrder ==
    pc = "returned" =>
        \A x \in 1..3 : \A y \in 1..3 : \A z \in 1..3 :
            /\ ret.cmp[x][y] = Reverse(ret.cmp[y][x])
            /\ (ret.cmp[x][y] = "Less" /\ ret.cmp[y][z] = "Less") => ret.cmp[x][z] = "Less"
            /\ (ret.cmp[x][y] = "Equal" /\ ret.cmp[y][z] = "Equal") => ret.cmp[x][z] = "Equal"
            /\ ret.partial_cmp[x][y] = Some(ret.cmp[x][y])
            /\ (ret.cmp[x][y] = "Equal") <=> ret.eq[x][y]

\* C18 (the hash input is exactly the file's bytes): a Full hash is the
\* hash of the file's bytes, all of them, once, in order and nothing else,
\* so two files of the same content get the same Full hash whatever the
\* read calls return; a Partial hash is the hash of the bytes the one read
\* returned, a prefix of the file.
C18_HashInputIsFileBytes ==
    (pc = "returned" /\ IsSome(ret.path)) =>
        /\ call.mode = "Full" =>
              /\ Unwrap(ret.path) = Sip128(ContentOf(call.path))
              /\ (IsSome(ret.other) /\ ContentOf(call.other) = ContentOf(call.path))
                    => ret.other = ret.path
        /\ call.mode = "Partial" =>
              \E n \in 0..Min(BufBlocks, Len(ContentOf(call.path))) :
                  Unwrap(ret.path) = Sip128(SubSeq(ContentOf(call.path), 1, n))

====
